---- MODULE Spec2Model ----
(***************************************************************************)
(* Energy-Audit-App: the metrics calculator (calculate_metrics) and the    *)
(* rule engine (generate_recommendations) of the coal plant audit tool, in *)
(* each of their four copies: utils.py and the page-local copies of        *)
(* Manual_Audit.py, Batch_Analysis.py and Visualizations.py.               *)
(*                                                                         *)
(* Numbers.  A Python float is modelled by the exact rational it stands    *)
(* for, [n |-> numerator, d |-> denominator] in lowest terms with d > 0.   *)
(* Values with d = 0 are not numbers: NaN (0/0); Text (-1/0), a str cell   *)
(* of an uploaded table; and the raised exceptions ZeroDivisionError (1/0) *)
(* and TypeError (2/0), the outcome of a division whose denominator is     *)
(* zero and of arithmetic on a str, which propagate through every later    *)
(* operation the way the raised exception abandons the rest of the         *)
(* function.  Binary rounding error of float64 is not modelled.            *)
(*                                                                         *)
(* Session.  The Manual Audit page keeps calculated_result in              *)
(* st.session_state across its script runs; each run of the script, caused *)
(* by an edited input or by a click on Run Audit, is one step.             *)
(*                                                                         *)
(* Pages.  A batch page (CSV_Analysis.py, Batch_Analysis.py,               *)
(* Visualizations.py) is one script run over an uploaded table, modelled   *)
(* step by step: read, schema check, cleaning, one row at a time through   *)
(* calculate_metrics, the result table, the averages and their             *)
(* recommendations.                                                        *)
(***************************************************************************)
EXTENDS Integers, Sequences, FiniteSets, TLC

VARIABLES pc, copy, inputs, result, recommendations, prev, calls, session_state, page, uploaded_file, df, result_df, final_df, report

\* The state of a batch page's script run.
batch == <<page, uploaded_file, df, result_df, final_df, report>>

vars == <<pc, copy, inputs, result, recommendations, prev, calls, session_state, batch>>

(***************************************************************************)
(* Bounds of the model.                                                    *)
(***************************************************************************)
\* Inputs of calculate_metrics are k times a base value, k in 0..MaxStep.
MaxStep == 2
\* Metrics handed to generate_recommendations reach up to Spread hundredths
\* above a band boundary.
Spread == 1
\* An uploaded table has at most MaxRows rows.
MaxRows == 3

(***************************************************************************)
(* Float arithmetic on exact rationals.                                    *)
(***************************************************************************)
RECURSIVE GCD(_, _)
GCD(a, b) == IF b = 0 THEN a ELSE GCD(b, a % b)

Abs(x) == IF x < 0 THEN -x ELSE x

\* The float n/d (d # 0), in lowest terms with a positive denominator.
Rat(n, d) ==
    LET g == GCD(Abs(n), Abs(d))
        s == IF d < 0 THEN -1 ELSE 1
    IN  [n |-> s * (n \div g), d |-> s * (d \div g)]

Num(k) == [n |-> k, d |-> 1]

NaN == [n |-> 0, d |-> 0]

ZeroDivisionError == [n |-> 1, d |-> 0]

TypeError == [n |-> 2, d |-> 0]

\* A str that is not the text of a number.
Text == [n |-> 0 - 1, d |-> 0]

\* The str that is the text of the number x: x with its denominator negated.
Str(x) == [n |-> x.n, d |-> 0 - x.d]

IsNaN(x) == x.d = 0 /\ x.n = 0

\* x is a str, the text of a number or not.
IsText(x) == x.d < 0 \/ (x.d = 0 /\ x.n < 0)

Raised(x) == x.d = 0 /\ x.n > 0

IsNumber(x) == x.d > 0

\* x * y; a float times a str raises.
Mul(x, y) ==
    IF Raised(x) THEN x
    ELSE IF Raised(y) THEN y
    ELSE IF IsText(x) \/ IsText(y) THEN TypeError
    ELSE IF IsNaN(x) \/ IsNaN(y) THEN NaN
    ELSE Rat(x.n * y.n, x.d * y.d)

\* x + y
Add(x, y) ==
    IF Raised(x) THEN x
    ELSE IF Raised(y) THEN y
    ELSE IF IsText(x) \/ IsText(y) THEN TypeError
    ELSE IF IsNaN(x) \/ IsNaN(y) THEN NaN
    ELSE Rat(x.n * y.d + y.n * x.d, x.d * y.d)

\* x - y
Sub(x, y) ==
    IF Raised(x) THEN x
    ELSE IF Raised(y) THEN y
    ELSE IF IsText(x) \/ IsText(y) THEN TypeError
    ELSE IF IsNaN(x) \/ IsNaN(y) THEN NaN
    ELSE Rat(x.n * y.d - y.n * x.d, x.d * y.d)

\* x / y: dividing by zero raises.
Div(x, y) ==
    IF Raised(x) THEN x
    ELSE IF Raised(y) THEN y
    ELSE IF IsText(x) \/ IsText(y) THEN TypeError
    ELSE IF IsNaN(x) \/ IsNaN(y) THEN NaN
    ELSE IF y.n = 0 THEN ZeroDivisionError
    ELSE Rat(x.n * y.d, x.d * y.n)

\* Comparisons; every comparison with NaN is false, except !=.  Two
\* fractions are compared by their integer parts first and by the remaining
\* fractions when these are equal, which keeps the products small.
Lt(x, y) ==
    /\ IsNumber(x)
    /\ IsNumber(y)
    /\ \/ x.n \div x.d < y.n \div y.d
       \/ /\ x.n \div x.d = y.n \div y.d
          /\ (x.n % x.d) * y.d < (y.n % y.d) * x.d
Le(x, y) ==
    /\ IsNumber(x)
    /\ IsNumber(y)
    /\ \/ x.n \div x.d < y.n \div y.d
       \/ /\ x.n \div x.d = y.n \div y.d
          /\ (x.n % x.d) * y.d <= (y.n % y.d) * x.d
Gt(x, y) == Lt(y, x)
Ge(x, y) == Le(y, x)
Ne(x, y) == ~(IsNumber(x) /\ IsNumber(y) /\ x.n = y.n /\ x.d = y.d)

\* The truth value of a value in a condition: a float is true unless it is
\* 0, a non-empty str is true.
Truthy(x) == Ne(x, Num(0))

RECURSIVE Pow10(_)
Pow10(k) == IF k = 0 THEN 1 ELSE 10 * Pow10(k - 1)

\* round(x, ndigits): to the nearest multiple of 10^-ndigits, a tie to the
\* even one.  (Python rounds the float's binary value; the model rounds the
\* rational it stands for.)
round(x, ndigits) ==
    IF ~IsNumber(x) THEN x
    ELSE LET s == Pow10(ndigits)
             q == (x.n * s) \div x.d
             r == (x.n * s) % x.d
             up == \/ 2 * r > x.d
                   \/ (2 * r = x.d /\ q % 2 = 1)
         IN  Rat(IF up THEN q + 1 ELSE q, s)

\* pd.notna(x)
notna(x) == ~IsNaN(x)

\* pd.to_numeric(x, errors='coerce'): a float is that float, the text of a
\* number is that number, any other str becomes NaN.
to_numeric(x) ==
    IF x.d < 0 THEN [n |-> x.n, d |-> 0 - x.d]
    ELSE IF IsText(x) THEN NaN
    ELSE x

\* metrics.get(key, default)
get(d, key, default) == IF key \in DOMAIN d THEN d[key] ELSE default

(***************************************************************************)
(* calculate_metrics, one definition per copy.  Each returns the dict of   *)
(* the five metrics under the copy's own keys.                             *)
(***************************************************************************)
\* utils_calculate_metrics with the heat rate divided without its guard.
utils_calculate_metrics_unguarded(coal_flow, gcv, steam_flow, h_steam, h_feed, power_output, flue_temp, ambient_temp) ==
    LET heat_input == Mul(coal_flow, gcv)
        steam_energy == Mul(steam_flow, Sub(h_steam, h_feed))
        boiler_efficiency ==
            IF Truthy(heat_input)
            THEN Mul(Div(steam_energy, heat_input), Num(100)) ELSE Num(0)
        heat_rate == Div(heat_input, power_output)
        sfc ==
            IF Truthy(power_output) THEN Div(coal_flow, power_output) ELSE Num(0)
        cp_flue_gas == Rat(24, 100)
        flue_gas_flow == Mul(Rat(15, 10), coal_flow)
        flue_gas_loss ==
            IF Truthy(heat_input)
            THEN Mul(Div(Mul(Mul(Sub(flue_temp, ambient_temp), cp_flue_gas),
                             flue_gas_flow),
                         heat_input),
                     Num(100))
            ELSE Num(0)
        co2_emissions == Mul(coal_flow, Rat(232, 100))
    IN  ("Boiler Efficiency (%)" :> round(boiler_efficiency, 2))
        @@ ("Heat Rate (kcal/kWh)" :> round(heat_rate, 2))
        @@ ("Specific Fuel Consumption (kg/kWh)" :> round(sfc, 4))
        @@ ("Flue Gas Loss (%)" :> round(flue_gas_loss, 2))
        @@ ("CO2 Emissions (kg/hr)" :> round(co2_emissions, 2))

utils_calculate_metrics(coal_flow, gcv, steam_flow, h_steam, h_feed, power_output, flue_temp, ambient_temp) ==
    LET heat_input == Mul(coal_flow, gcv)
        steam_energy == Mul(steam_flow, Sub(h_steam, h_feed))
        boiler_efficiency ==
            IF Truthy(heat_input)
            THEN Mul(Div(steam_energy, heat_input), Num(100)) ELSE Num(0)
        heat_rate ==
            IF Truthy(power_output) THEN Div(heat_input, power_output) ELSE Num(0)
        sfc ==
            IF Truthy(power_output) THEN Div(coal_flow, power_output) ELSE Num(0)
        cp_flue_gas == Rat(24, 100)
        flue_gas_flow == Mul(Rat(15, 10), coal_flow)
        flue_gas_loss ==
            IF Truthy(heat_input)
            THEN Mul(Div(Mul(Mul(Sub(flue_temp, ambient_temp), cp_flue_gas),
                             flue_gas_flow),
                         heat_input),
                     Num(100))
            ELSE Num(0)
        co2_emissions == Mul(coal_flow, Rat(232, 100))
    IN  ("Boiler Efficiency (%)" :> round(boiler_efficiency, 2))
        @@ ("Heat Rate (kcal/kWh)" :> round(heat_rate, 2))
        @@ ("Specific Fuel Consumption (kg/kWh)" :> round(sfc, 4))
        @@ ("Flue Gas Loss (%)" :> round(flue_gas_loss, 2))
        @@ ("CO2 Emissions (kg/hr)" :> round(co2_emissions, 2))

\* The coercion at the top of the Manual_Audit and Batch_Analysis copies:
\* pd.to_numeric(x, errors='coerce') if pd.notna(x) else 0
Manual_Audit_coerce(x) == IF notna(x) THEN to_numeric(x) ELSE Num(0)

\* Manual_Audit_calculate_metrics with the enthalpy difference taken the
\* other way round.
Manual_Audit_calculate_metrics_feed_minus_steam(coal_flow_in, gcv_in, steam_flow_in, steam_h_in, feed_h_in, power_output_in, flue_temp_in, amb_temp_in) ==
    LET coal_flow == Manual_Audit_coerce(coal_flow_in)
        gcv == Manual_Audit_coerce(gcv_in)
        steam_flow == Manual_Audit_coerce(steam_flow_in)
        steam_h == Manual_Audit_coerce(steam_h_in)
        feed_h == Manual_Audit_coerce(feed_h_in)
        power_output == Manual_Audit_coerce(power_output_in)
        flue_temp == Manual_Audit_coerce(flue_temp_in)
        amb_temp == Manual_Audit_coerce(amb_temp_in)
        energy_input == Mul(coal_flow, gcv)
        steam_energy == Mul(steam_flow, Sub(feed_h, steam_h))
        efficiency ==
            IF Ne(energy_input, Num(0))
            THEN Mul(Div(steam_energy, energy_input), Num(100)) ELSE Num(0)
        plant_heat_rate ==
            IF Ne(power_output, Num(0))
            THEN Div(energy_input, power_output) ELSE Num(0)
        specific_fuel_consumption ==
            IF Ne(power_output, Num(0))
            THEN Div(coal_flow, power_output) ELSE Num(0)
        co2_emissions == Mul(coal_flow, Rat(229, 100))
        flue_loss == Mul(Sub(flue_temp, amb_temp), Rat(25, 100))
    IN  ("Boiler Efficiency" :> efficiency)
        @@ ("Plant Heat Rate (kcal/kWh)" :> plant_heat_rate)
        @@ ("Specific Fuel Consumption (kg/kWh)" :> specific_fuel_consumption)
        @@ ("Flue Gas Loss" :> flue_loss)
        @@ ("CO2 Emissions (kg/hr)" :> co2_emissions)

Manual_Audit_calculate_metrics(coal_flow_in, gcv_in, steam_flow_in, steam_h_in, feed_h_in, power_output_in, flue_temp_in, amb_temp_in) ==
    LET coal_flow == Manual_Audit_coerce(coal_flow_in)
        gcv == Manual_Audit_coerce(gcv_in)
        steam_flow == Manual_Audit_coerce(steam_flow_in)
        steam_h == Manual_Audit_coerce(steam_h_in)
        feed_h == Manual_Audit_coerce(feed_h_in)
        power_output == Manual_Audit_coerce(power_output_in)
        flue_temp == Manual_Audit_coerce(flue_temp_in)
        amb_temp == Manual_Audit_coerce(amb_temp_in)
        energy_input == Mul(coal_flow, gcv)
        steam_energy == Mul(steam_flow, Sub(steam_h, feed_h))
        efficiency ==
            IF Ne(energy_input, Num(0))
            THEN Mul(Div(steam_energy, energy_input), Num(100)) ELSE Num(0)
        plant_heat_rate ==
            IF Ne(power_output, Num(0))
            THEN Div(energy_input, power_output) ELSE Num(0)
        specific_fuel_consumption ==
            IF Ne(power_output, Num(0))
            THEN Div(coal_flow, power_output) ELSE Num(0)
        co2_emissions == Mul(coal_flow, Rat(229, 100))
        flue_loss == Mul(Sub(flue_temp, amb_temp), Rat(25, 100))
    IN  ("Boiler Efficiency" :> efficiency)
        @@ ("Plant Heat Rate (kcal/kWh)" :> plant_heat_rate)
        @@ ("Specific Fuel Consumption (kg/kWh)" :> specific_fuel_consumption)
        @@ ("Flue Gas Loss" :> flue_loss)
        @@ ("CO2 Emissions (kg/hr)" :> co2_emissions)

Batch_Analysis_coerce(x) == IF notna(x) THEN to_numeric(x) ELSE Num(0)

Batch_Analysis_calculate_metrics(coal_flow_in, gcv_in, steam_flow_in, steam_h_in, feed_h_in, power_output_in, flue_temp_in, amb_temp_in) ==
    LET coal_flow == Batch_Analysis_coerce(coal_flow_in)
        gcv == Batch_Analysis_coerce(gcv_in)
        steam_flow == Batch_Analysis_coerce(steam_flow_in)
        steam_h == Batch_Analysis_coerce(steam_h_in)
        feed_h == Batch_Analysis_coerce(feed_h_in)
        power_output == Batch_Analysis_coerce(power_output_in)
        flue_temp == Batch_Analysis_coerce(flue_temp_in)
        amb_temp == Batch_Analysis_coerce(amb_temp_in)
        energy_input == Mul(coal_flow, gcv)
        steam_energy == Mul(steam_flow, Sub(steam_h, feed_h))
        efficiency ==
            IF Ne(energy_input, Num(0))
            THEN Mul(Div(steam_energy, energy_input), Num(100)) ELSE Num(0)
        plant_heat_rate ==
            IF Ne(power_output, Num(0))
            THEN Div(energy_input, power_output) ELSE Num(0)
        specific_fuel_consumption ==
            IF Ne(power_output, Num(0))
            THEN Div(coal_flow, power_output) ELSE Num(0)
        co2_emissions == Mul(coal_flow, Rat(229, 100))
        flue_loss == Mul(Sub(flue_temp, amb_temp), Rat(25, 100))
    IN  ("Boiler Efficiency" :> efficiency)
        @@ ("Plant Heat Rate (kcal/kWh)" :> plant_heat_rate)
        @@ ("Specific Fuel Consumption (kg/kWh)" :> specific_fuel_consumption)
        @@ ("Flue Gas Loss" :> flue_loss)
        @@ ("CO2 Emissions (kg/hr)" :> co2_emissions)

\* Visualizations_calculate_metrics with the heat rate and the specific fuel
\* consumption falling back to their numerators, not to 0, when
\* power_output is 0.
Visualizations_calculate_metrics_no_zero(coal_flow, gcv, steam_flow, steam_h, feed_h, power_output, flue_temp, amb_temp) ==
    LET energy_input == Mul(coal_flow, gcv)
        steam_energy == Mul(steam_flow, Sub(steam_h, feed_h))
        efficiency ==
            IF Ne(energy_input, Num(0))
            THEN Mul(Div(steam_energy, energy_input), Num(100)) ELSE Num(0)
        plant_heat_rate ==
            IF Ne(power_output, Num(0))
            THEN Div(energy_input, power_output) ELSE energy_input
        specific_fuel_consumption ==
            IF Ne(power_output, Num(0))
            THEN Div(coal_flow, power_output) ELSE coal_flow
        co2_emissions == Mul(coal_flow, Rat(229, 100))
        flue_loss == Mul(Sub(flue_temp, amb_temp), Rat(25, 100))
    IN  ("Boiler Efficiency" :> efficiency)
        @@ ("Plant Heat Rate (kcal/kWh)" :> plant_heat_rate)
        @@ ("Specific Fuel Consumption (kg/kWh)" :> specific_fuel_consumption)
        @@ ("Flue Gas Loss" :> flue_loss)
        @@ ("CO2 Emissions (kg/hr)" :> co2_emissions)

\* The Visualizations copy has no coercion of its arguments.
Visualizations_calculate_metrics(coal_flow, gcv, steam_flow, steam_h, feed_h, power_output, flue_temp, amb_temp) ==
    LET energy_input == Mul(coal_flow, gcv)
        steam_energy == Mul(steam_flow, Sub(steam_h, feed_h))
        efficiency ==
            IF Ne(energy_input, Num(0))
            THEN Mul(Div(steam_energy, energy_input), Num(100)) ELSE Num(0)
        plant_heat_rate ==
            IF Ne(power_output, Num(0))
            THEN Div(energy_input, power_output) ELSE Num(0)
        specific_fuel_consumption ==
            IF Ne(power_output, Num(0))
            THEN Div(coal_flow, power_output) ELSE Num(0)
        co2_emissions == Mul(coal_flow, Rat(229, 100))
        flue_loss == Mul(Sub(flue_temp, amb_temp), Rat(25, 100))
    IN  ("Boiler Efficiency" :> efficiency)
        @@ ("Plant Heat Rate (kcal/kWh)" :> plant_heat_rate)
        @@ ("Specific Fuel Consumption (kg/kWh)" :> specific_fuel_consumption)
        @@ ("Flue Gas Loss" :> flue_loss)
        @@ ("CO2 Emissions (kg/hr)" :> co2_emissions)

(***************************************************************************)
(* generate_recommendations, one definition per copy, built from the       *)
(* blocks that rate one indicator each.  A message is modelled by the      *)
(* indicator it is about and its severity, read off the sign that opens    *)
(* its text: a check mark is good, a warning sign is warning, a cross is   *)
(* critical.  Each block yields the messages it appends to rec.            *)
(***************************************************************************)
Msg(about, sev) == [about |-> about, sev |-> sev]

\* utils_rec_be with the good band's bound included: be >= 85.
utils_rec_be_ge85(metrics) ==
    LET be == get(metrics, "Boiler Efficiency (%)", Num(0))
    IN  IF Ge(be, Num(85)) THEN <<Msg("boiler_efficiency", "good")>>
        ELSE IF Ge(be, Num(70)) THEN <<Msg("boiler_efficiency", "warning")>>
        ELSE <<Msg("boiler_efficiency", "critical")>>

utils_rec_be(metrics) ==
    LET be == get(metrics, "Boiler Efficiency (%)", Num(0))
    IN  IF Gt(be, Num(85)) THEN <<Msg("boiler_efficiency", "good")>>
        ELSE IF Ge(be, Num(70)) THEN <<Msg("boiler_efficiency", "warning")>>
        ELSE <<Msg("boiler_efficiency", "critical")>>

utils_rec_hr(metrics) ==
    LET hr == get(metrics, "Heat Rate (kcal/kWh)", Num(0))
    IN  IF Gt(hr, Num(3000)) THEN <<Msg("heat_rate", "critical")>>
        ELSE IF Gt(hr, Num(2500)) THEN <<Msg("heat_rate", "warning")>>
        ELSE <<Msg("heat_rate", "good")>>

utils_rec_sfc(metrics) ==
    LET sfc == get(metrics, "Specific Fuel Consumption (kg/kWh)", Num(0))
    IN  IF Gt(sfc, Rat(75, 100)) THEN <<Msg("specific_fuel_consumption", "critical")>>
        ELSE IF Gt(sfc, Rat(6, 10)) THEN <<Msg("specific_fuel_consumption", "warning")>>
        ELSE <<Msg("specific_fuel_consumption", "good")>>

utils_rec_fl(metrics) ==
    LET fl == get(metrics, "Flue Gas Loss (%)", Num(0))
    IN  IF Gt(fl, Num(10)) THEN <<Msg("flue_gas_loss", "critical")>>
        ELSE IF Gt(fl, Num(5)) THEN <<Msg("flue_gas_loss", "warning")>>
        ELSE <<Msg("flue_gas_loss", "good")>>

utils_rec_co2(metrics) ==
    LET co2 == get(metrics, "CO2 Emissions (kg/hr)", Num(0))
    IN  IF Gt(co2, Num(8000)) THEN <<Msg("co2_emissions", "warning")>>
        ELSE <<>>

\* The value returned is "\n\n".join(rec); it is modelled by rec itself,
\* which the joined text determines (no message holds a blank line).
utils_generate_recommendations(metrics) ==
    utils_rec_be(metrics) \o utils_rec_hr(metrics) \o utils_rec_sfc(metrics)
        \o utils_rec_fl(metrics) \o utils_rec_co2(metrics)

Manual_Audit_rec_be(metrics) ==
    LET be == get(metrics, "Boiler Efficiency", Num(0))
    IN  IF Gt(be, Num(85)) THEN <<Msg("boiler_efficiency", "good")>>
        ELSE IF Le(Num(70), be) /\ Le(be, Num(85))
             THEN <<Msg("boiler_efficiency", "warning")>>
        ELSE <<Msg("boiler_efficiency", "critical")>>

Manual_Audit_rec_hr(metrics) ==
    LET hr == get(metrics, "Plant Heat Rate (kcal/kWh)", Num(0))
    IN  IF Lt(hr, Num(2500)) /\ Gt(hr, Num(0)) THEN <<Msg("heat_rate", "good")>>
        ELSE IF Le(Num(2500), hr) /\ Le(hr, Num(3000))
             THEN <<Msg("heat_rate", "warning")>>
        ELSE <<Msg("heat_rate", "critical")>>

Manual_Audit_rec_sfc(metrics) ==
    LET sfc == get(metrics, "Specific Fuel Consumption (kg/kWh)", Num(0))
    IN  IF Lt(sfc, Rat(6, 10)) /\ Gt(sfc, Num(0))
        THEN <<Msg("specific_fuel_consumption", "good")>>
        ELSE IF Le(Rat(6, 10), sfc) /\ Le(sfc, Rat(75, 100))
             THEN <<Msg("specific_fuel_consumption", "warning")>>
        ELSE <<Msg("specific_fuel_consumption", "critical")>>

Manual_Audit_rec_fl(metrics) ==
    LET fl == get(metrics, "Flue Gas Loss", Num(0))
    IN  IF Lt(fl, Num(5)) /\ Gt(fl, Num(0)) THEN <<Msg("flue_gas_loss", "good")>>
        ELSE IF Le(Num(5), fl) /\ Le(fl, Num(10))
             THEN <<Msg("flue_gas_loss", "warning")>>
        ELSE <<Msg("flue_gas_loss", "critical")>>

Manual_Audit_rec_co2(metrics) ==
    LET co2 == get(metrics, "CO2 Emissions (kg/hr)", Num(0))
    IN  IF Gt(co2, Num(8000)) THEN <<Msg("co2_emissions", "warning")>>
        ELSE IF Gt(co2, Num(0)) THEN <<Msg("co2_emissions", "good")>>
        ELSE <<>>

Manual_Audit_generate_recommendations(metrics) ==
    Manual_Audit_rec_be(metrics) \o Manual_Audit_rec_hr(metrics)
        \o Manual_Audit_rec_sfc(metrics) \o Manual_Audit_rec_fl(metrics)
        \o Manual_Audit_rec_co2(metrics)

Batch_Analysis_rec_be(metrics) ==
    LET be == get(metrics, "Boiler Efficiency", Num(0))
    IN  IF Gt(be, Num(85)) THEN <<Msg("boiler_efficiency", "good")>>
        ELSE IF Le(Num(70), be) /\ Le(be, Num(85))
             THEN <<Msg("boiler_efficiency", "warning")>>
        ELSE <<Msg("boiler_efficiency", "critical")>>

Batch_Analysis_rec_hr(metrics) ==
    LET hr == get(metrics, "Plant Heat Rate (kcal/kWh)", Num(0))
    IN  IF Lt(hr, Num(2500)) /\ Gt(hr, Num(0)) THEN <<Msg("heat_rate", "good")>>
        ELSE IF Le(Num(2500), hr) /\ Le(hr, Num(3000))
             THEN <<Msg("heat_rate", "warning")>>
        ELSE <<Msg("heat_rate", "critical")>>

Batch_Analysis_rec_sfc(metrics) ==
    LET sfc == get(metrics, "Specific Fuel Consumption (kg/kWh)", Num(0))
    IN  IF Lt(sfc, Rat(6, 10)) /\ Gt(sfc, Num(0))
        THEN <<Msg("specific_fuel_consumption", "good")>>
        ELSE IF Le(Rat(6, 10), sfc) /\ Le(sfc, Rat(75, 100))
             THEN <<Msg("specific_fuel_consumption", "warning")>>
        ELSE <<Msg("specific_fuel_consumption", "critical")>>

Batch_Analysis_rec_fl(metrics) ==
    LET fl == get(metrics, "Flue Gas Loss", Num(0))
    IN  IF Lt(fl, Num(5)) /\ Gt(fl, Num(0)) THEN <<Msg("flue_gas_loss", "good")>>
        ELSE IF Le(Num(5), fl) /\ Le(fl, Num(10))
             THEN <<Msg("flue_gas_loss", "warning")>>
        ELSE <<Msg("flue_gas_loss", "critical")>>

Batch_Analysis_rec_co2(metrics) ==
    LET co2 == get(metrics, "CO2 Emissions (kg/hr)", Num(0))
    IN  IF Gt(co2, Num(8000)) THEN <<Msg("co2_emissions", "warning")>>
        ELSE IF Gt(co2, Num(0)) THEN <<Msg("co2_emissions", "good")>>
        ELSE <<>>

\* Batch_Analysis_generate_recommendations with the heat rate block moved
\* above the boiler efficiency block.
Batch_Analysis_generate_recommendations_hr_first(metrics) ==
    Batch_Analysis_rec_hr(metrics) \o Batch_Analysis_rec_be(metrics)
        \o Batch_Analysis_rec_sfc(metrics) \o Batch_Analysis_rec_fl(metrics)
        \o Batch_Analysis_rec_co2(metrics)

Batch_Analysis_generate_recommendations(metrics) ==
    Batch_Analysis_rec_be(metrics) \o Batch_Analysis_rec_hr(metrics)
        \o Batch_Analysis_rec_sfc(metrics) \o Batch_Analysis_rec_fl(metrics)
        \o Batch_Analysis_rec_co2(metrics)

Visualizations_rec_be(metrics) ==
    LET be == get(metrics, "Boiler Efficiency", Num(0))
    IN  IF Gt(be, Num(85)) THEN <<Msg("boiler_efficiency", "good")>>
        ELSE IF Le(Num(70), be) /\ Le(be, Num(85))
             THEN <<Msg("boiler_efficiency", "warning")>>
        ELSE <<Msg("boiler_efficiency", "critical")>>

\* The Visualizations copy guards the good band with != 0, not with > 0.
Visualizations_rec_hr(metrics) ==
    LET hr == get(metrics, "Plant Heat Rate (kcal/kWh)", Num(0))
    IN  IF Lt(hr, Num(2500)) /\ Ne(hr, Num(0)) THEN <<Msg("heat_rate", "good")>>
        ELSE IF Le(Num(2500), hr) /\ Le(hr, Num(3000))
             THEN <<Msg("heat_rate", "warning")>>
        ELSE <<Msg("heat_rate", "critical")>>

Visualizations_rec_sfc(metrics) ==
    LET sfc == get(metrics, "Specific Fuel Consumption (kg/kWh)", Num(0))
    IN  IF Lt(sfc, Rat(6, 10)) /\ Ne(sfc, Num(0))
        THEN <<Msg("specific_fuel_consumption", "good")>>
        ELSE IF Le(Rat(6, 10), sfc) /\ Le(sfc, Rat(75, 100))
             THEN <<Msg("specific_fuel_consumption", "warning")>>
        ELSE <<Msg("specific_fuel_consumption", "critical")>>

Visualizations_rec_fl(metrics) ==
    LET fl == get(metrics, "Flue Gas Loss", Num(0))
    IN  IF Lt(fl, Num(5)) /\ Ne(fl, Num(0)) THEN <<Msg("flue_gas_loss", "good")>>
        ELSE IF Le(Num(5), fl) /\ Le(fl, Num(10))
             THEN <<Msg("flue_gas_loss", "warning")>>
        ELSE <<Msg("flue_gas_loss", "critical")>>

Visualizations_rec_co2(metrics) ==
    LET co2 == get(metrics, "CO2 Emissions (kg/hr)", Num(0))
    IN  IF Gt(co2, Num(8000)) THEN <<Msg("co2_emissions", "warning")>>
        ELSE IF Gt(co2, Num(0)) THEN <<Msg("co2_emissions", "good")>>
        ELSE <<>>

Visualizations_generate_recommendations(metrics) ==
    Visualizations_rec_be(metrics) \o Visualizations_rec_hr(metrics)
        \o Visualizations_rec_sfc(metrics) \o Visualizations_rec_fl(metrics)
        \o Visualizations_rec_co2(metrics)

(***************************************************************************)
(* The four copies, and the keys each copy's metrics dict uses.            *)
(***************************************************************************)
Copies == {"utils", "Manual_Audit", "Batch_Analysis", "Visualizations"}

Indicators ==
    <<"boiler_efficiency", "heat_rate", "specific_fuel_consumption",
      "flue_gas_loss", "co2_emissions">>

\* The key under which copy c's dict holds indicator ind.
Key(c, ind) ==
    IF c = "utils"
    THEN CASE ind = "boiler_efficiency" -> "Boiler Efficiency (%)"
           [] ind = "heat_rate" -> "Heat Rate (kcal/kWh)"
           [] ind = "specific_fuel_consumption" -> "Specific Fuel Consumption (kg/kWh)"
           [] ind = "flue_gas_loss" -> "Flue Gas Loss (%)"
           [] ind = "co2_emissions" -> "CO2 Emissions (kg/hr)"
    ELSE CASE ind = "boiler_efficiency" -> "Boiler Efficiency"
           [] ind = "heat_rate" -> "Plant Heat Rate (kcal/kWh)"
           [] ind = "specific_fuel_consumption" -> "Specific Fuel Consumption (kg/kWh)"
           [] ind = "flue_gas_loss" -> "Flue Gas Loss"
           [] ind = "co2_emissions" -> "CO2 Emissions (kg/hr)"

\* A metrics dict of copy c holding the five given values.
MetricsRecord(c, be, hr, sfc, fl, co2) ==
    (Key(c, "boiler_efficiency") :> be)
    @@ (Key(c, "heat_rate") :> hr)
    @@ (Key(c, "specific_fuel_consumption") :> sfc)
    @@ (Key(c, "flue_gas_loss") :> fl)
    @@ (Key(c, "co2_emissions") :> co2)

\* The calculate_metrics a caller of copy c reaches, on a measurement record.
calculate_metrics(c, m) ==
    CASE c = "utils" ->
            utils_calculate_metrics(m.coal_flow, m.gcv, m.steam_flow, m.steam_enthalpy, m.feedwater_enthalpy, m.power_output, m.flue_temp, m.ambient_temp)
      [] c = "Manual_Audit" ->
            Manual_Audit_calculate_metrics(m.coal_flow, m.gcv, m.steam_flow, m.steam_enthalpy, m.feedwater_enthalpy, m.power_output, m.flue_temp, m.ambient_temp)
      [] c = "Batch_Analysis" ->
            Batch_Analysis_calculate_metrics(m.coal_flow, m.gcv, m.steam_flow, m.steam_enthalpy, m.feedwater_enthalpy, m.power_output, m.flue_temp, m.ambient_temp)
      [] c = "Visualizations" ->
            Visualizations_calculate_metrics(m.coal_flow, m.gcv, m.steam_flow, m.steam_enthalpy, m.feedwater_enthalpy, m.power_output, m.flue_temp, m.ambient_temp)

\* The generate_recommendations a caller of copy c reaches.
generate_recommendations(c, metrics) ==
    CASE c = "utils" -> utils_generate_recommendations(metrics)
      [] c = "Manual_Audit" -> Manual_Audit_generate_recommendations(metrics)
      [] c = "Batch_Analysis" -> Batch_Analysis_generate_recommendations(metrics)
      [] c = "Visualizations" -> Visualizations_generate_recommendations(metrics)

(***************************************************************************)
(* State.  pc is the caller's position: "start" before calculate_metrics,  *)
(* "metrics" with a metrics dict in result, "raised" when                   *)
(* calculate_metrics raised, "done" when generate_recommendations has      *)
(* returned into recommendations.                                          *)
(***************************************************************************)
NoMetrics == [k \in {} |-> Num(0)]

NoMeasurement == [none |-> TRUE]

\* The measurement records of the model: every input a multiple of the
\* Manual Audit form's default value; the inputs a guard or a sign depends
\* on (coal_flow, gcv, power_output, flue_temp) may be 0.
Measurements ==
    [coal_flow : {Num(100 * k) : k \in 0..MaxStep},
     gcv : {Num(5000 * k) : k \in 0..MaxStep},
     steam_flow : {Num(400 * k) : k \in 1..MaxStep},
     steam_enthalpy : {Num(750 * k) : k \in 1..MaxStep},
     feedwater_enthalpy : {Num(100 * k) : k \in 1..MaxStep},
     power_output : {Num(200 * k) : k \in 0..MaxStep},
     flue_temp : {Num(150 * k) : k \in 0..MaxStep},
     ambient_temp : {Num(25 * k) : k \in 1..MaxStep}]

\* The values around the boundary c/100: from one hundredth below it to
\* Spread hundredths above it.
Near(c) == {Rat(c + j, 100) : j \in (0 - 1)..Spread}

BoilerEfficiencyValues == Near(7000) \cup Near(8500)
HeatRateValues == Near(0) \cup Near(250000) \cup Near(300000)
SfcValues == Near(0) \cup Near(60) \cup Near(75)
FlueGasLossValues == Near(0) \cup Near(500) \cup Near(1000)
Co2Values == Near(0) \cup Near(800000)

\* No earlier call, no uploaded file.
NoCall == [none |-> TRUE]

\* Python's None, and st.session_state with no key set.
None == [none |-> TRUE]
NoSession == [k \in {} |-> None]

NoFile == [none |-> TRUE]

\* No batch page is running.
NoPage ==
    /\ page = "none"
    /\ uploaded_file = NoFile
    /\ df = <<>>
    /\ result_df = <<>>
    /\ final_df = <<>>
    /\ report = <<>>

Init ==
    /\ pc = "start"
    /\ copy = "none"
    /\ inputs \in Measurements
    /\ result = NoMetrics
    /\ recommendations = <<>>
    /\ prev = NoCall
    /\ session_state = NoSession
    /\ calls = <<>>
    /\ NoPage

\* A caller of copy c calls calculate_metrics on the measurement record.
\* calls is the log of the argument records calculate_metrics has received.
Calculate(c) ==
    /\ pc = "start"
    /\ LET r == calculate_metrics(c, inputs)
       IN  IF \E k \in DOMAIN r : Raised(r[k])
           THEN pc' = "raised" /\ result' = NoMetrics
           ELSE pc' = "metrics" /\ result' = r
    /\ copy' = c
    /\ calls' = Append(calls, [copy |-> c, args |-> inputs])
    /\ UNCHANGED <<inputs, recommendations, prev, session_state, batch>>

\* The caller hands the metrics dict to the same copy's
\* generate_recommendations.
Recommend ==
    /\ pc = "metrics"
    /\ recommendations' = generate_recommendations(copy, result)
    /\ pc' = "done"
    /\ UNCHANGED <<copy, inputs, result, prev, session_state, calls, batch>>

Next ==
    \/ \E c \in Copies : Calculate(c)
    \/ Recommend

Spec == Init /\ [][Next]_vars

\* generate_recommendations of each copy on a metrics dict its caller
\* supplies (a computed record or a batch average).
InitRec ==
    /\ pc = "metrics"
    /\ copy \in Copies
    /\ inputs = NoMeasurement
    /\ \E be \in BoilerEfficiencyValues, hr \in HeatRateValues, sfc \in SfcValues, fl \in FlueGasLossValues, co2 \in Co2Values :
            result = MetricsRecord(copy, be, hr, sfc, fl, co2)
    /\ recommendations = <<>>
    /\ prev = NoCall
    /\ session_state = NoSession
    /\ calls = <<>>
    /\ NoPage

NextRec == Recommend

SpecRec == InitRec /\ [][NextRec]_vars

(***************************************************************************)
(* The same copy called twice, the second time with a larger steam         *)
(* enthalpy and every other input unchanged: the operator edits one field  *)
(* of the form and calculates again.                                       *)
(***************************************************************************)
\* Measurement records with a coal flow as small as a hundredth (one step of
\* the form's field) and a steam flow that may be 0.
FineMeasurements ==
    [coal_flow : {Rat(j, 100) : j \in 0..2} \cup {Num(100 * k) : k \in 1..MaxStep},
     gcv : {Num(5000 * k) : k \in 1..MaxStep},
     steam_flow : {Num(400 * k) : k \in 0..MaxStep},
     steam_enthalpy : {Num(750 * k) : k \in 1..MaxStep},
     feedwater_enthalpy : {Num(100)},
     power_output : {Num(200)},
     flue_temp : {Num(150)},
     ambient_temp : {Num(25)}]

\* What the second call adds to the steam enthalpy: one step of the form's
\* field (0.01) or a multiple of its default value.
Increments == {Rat(1, 100)} \cup {Num(750 * k) : k \in 1..MaxStep}

InitMono ==
    /\ pc = "start"
    /\ copy = "none"
    /\ inputs \in FineMeasurements
    /\ result = NoMetrics
    /\ recommendations = <<>>
    /\ prev = NoCall
    /\ session_state = NoSession
    /\ calls = <<>>
    /\ NoPage

Recalculate(delta) ==
    /\ pc = "metrics"
    /\ prev = NoCall
    /\ LET m == [inputs EXCEPT !.steam_enthalpy = Add(@, delta)]
       IN  /\ inputs' = m
           /\ result' = calculate_metrics(copy, m)
           /\ calls' = Append(calls, [copy |-> copy, args |-> m])
    /\ prev' = [inputs |-> inputs, result |-> result]
    /\ UNCHANGED <<pc, copy, recommendations, session_state, batch>>

NextMono ==
    \/ \E c \in Copies : Calculate(c)
    \/ \E delta \in Increments : Recalculate(delta)

SpecMono == InitMono /\ [][NextMono]_vars

(***************************************************************************)
(* The batch pages.  A DataFrame is a sequence of rows, each with its      *)
(* index label; a file holds each cell as read_csv parses it: a number,    *)
(* NaN for an empty cell or a token read_csv takes for a missing value     *)
(* ("n/a", "NA", ...), Text for any other text.  pc is the script's        *)
(* position: "uploaded", "read", "checked", "rows" (the loop over the      *)
(* rows), "table" (the result table is shown), then "metrics" and "done"   *)
(* as for a single record; "stopped" after st.stop(), "finished" when the  *)
(* script ended without a table.  Plots are not modelled.                  *)
(***************************************************************************)
required_columns == <<"Coal Flow", "GCV", "Steam Flow", "Steam Enthalpy", "Feedwater Enthalpy", "Power Output", "Flue Temp", "Ambient Temp">>

\* Visualizations.py has the same list under another name.
numeric_cols == required_columns

numeric_metrics_cols == {"Boiler Efficiency", "Plant Heat Rate (kcal/kWh)", "Specific Fuel Consumption (kg/kWh)", "Flue Gas Loss", "CO2 Emissions (kg/hr)"}

Pages == {"CSV_Analysis", "Batch_Analysis", "Visualizations"}

\* The copy a page calls: CSV_Analysis imports utils, the other pages define
\* their own.
CopyOf(p) == IF p = "CSV_Analysis" THEN "utils" ELSE p

Range(s) == {s[i] : i \in 1..Len(s)}

\* The arguments a page passes to calculate_metrics for a row.
RowArgs(cells) ==
    [coal_flow |-> cells["Coal Flow"],
     gcv |-> cells["GCV"],
     steam_flow |-> cells["Steam Flow"],
     steam_enthalpy |-> cells["Steam Enthalpy"],
     feedwater_enthalpy |-> cells["Feedwater Enthalpy"],
     power_output |-> cells["Power Output"],
     flue_temp |-> cells["Flue Temp"],
     ambient_temp |-> cells["Ambient Temp"]]

\* The row of the form's default values.
ExampleRow ==
    ("Coal Flow" :> Num(100)) @@ ("GCV" :> Num(5000))
    @@ ("Steam Flow" :> Num(400)) @@ ("Steam Enthalpy" :> Num(750))
    @@ ("Feedwater Enthalpy" :> Num(100)) @@ ("Power Output" :> Num(200))
    @@ ("Flue Temp" :> Num(150)) @@ ("Ambient Temp" :> Num(25))

\* Rows of numbers: heat rate 2500, heat rate 3000, and power output 0.
GoodRows ==
    {ExampleRow,
     [ExampleRow EXCEPT !["Coal Flow"] = Num(120)],
     [ExampleRow EXCEPT !["Power Output"] = Num(0)]}

\* Rows whose GCV cell is missing or is text.
BadRows == {[ExampleRow EXCEPT !["GCV"] = b] : b \in {NaN, Text}}

Rows == GoodRows \cup BadRows

Tables == UNION {[1..n -> Rows] : n \in 0..MaxRows}

\* The columns a file may lack.
DroppedColumns == SUBSET {"Steam Flow", "Flue Temp"}

Files ==
    {[columns |-> Range(required_columns) \ missing,
      rows |-> [i \in DOMAIN t |-> [c \in Range(required_columns) \ missing |-> t[i][c]]]] :
        missing \in DroppedColumns, t \in Tables}

\* pd.read_csv: rows labelled 0, 1, ...; a column with a text cell is an
\* object column, whose numbers are str too.
read_csv(f) ==
    [i \in 1..Len(f.rows) |->
        [index |-> i - 1,
         cells |-> [c \in f.columns |->
                        IF IsNumber(f.rows[i][c]) /\ (\E j \in 1..Len(f.rows) : f.rows[j][c] = Text)
                        THEN Str(f.rows[i][c])
                        ELSE f.rows[i][c]]]]

\* df[col] = pd.to_numeric(df[col], errors='coerce') for each col of cols.
to_numeric_columns(d, cols) ==
    [i \in 1..Len(d) |->
        [d[i] EXCEPT !.cells = [c \in DOMAIN @ |-> IF c \in cols THEN to_numeric(@[c]) ELSE @[c]]]]

\* df.dropna(subset=subset) keeping every row.
dropna_none(d, subset) == d

\* df.dropna(subset=subset): the rows with no NaN in the columns of subset,
\* under their labels.
dropna(d, subset) ==
    SelectSeq(d, LAMBDA row : \A c \in subset : notna(row.cells[c]))

\* d.reset_index(drop=True)
reset_index(d) == [i \in 1..Len(d) |-> [d[i] EXCEPT !.index = i - 1]]

\* pd.concat([a, b], axis=1): the rows of a and b joined on their labels;
\* where a label is in one of them only, the other's columns are NaN.
concat(a, b) ==
    LET columns == IF Len(a) = 0 THEN {} ELSE DOMAIN a[1].cells
        keys == IF Len(b) = 0 THEN {} ELSE DOMAIN b[1].metrics
        only_b == SelectSeq(b, LAMBDA y : \A i \in 1..Len(a) : a[i].index # y.index)
        metrics_at(l) ==
            IF \E j \in 1..Len(b) : b[j].index = l
            THEN b[CHOOSE j \in 1..Len(b) : b[j].index = l].metrics
            ELSE [k \in keys |-> NaN]
    IN  [i \in 1..Len(a) |->
            [index |-> a[i].index, cells |-> a[i].cells, metrics |-> metrics_at(a[i].index)]]
        \o [i \in 1..Len(only_b) |->
            [index |-> only_b[i].index, cells |-> [c \in columns |-> NaN], metrics |-> only_b[i].metrics]]

\* Batch_Analysis_final_df without the reset_index calls.
Batch_Analysis_final_df_no_reset(d, r) == concat(d, r)

Batch_Analysis_final_df(d, r) == concat(reset_index(d), reset_index(r))

CSV_Analysis_final_df(d, r) == concat(d, r)

Visualizations_df_with_metrics(d, r) == concat(d, r)

RECURSIVE sum(_)
sum(s) == IF Len(s) = 0 THEN Num(0) ELSE Add(Head(s), sum(Tail(s)))

\* mean without the division by the number of values.
mean_undivided(s) ==
    LET v == SelectSeq(s, notna)
    IN  IF Len(v) = 0 THEN NaN ELSE sum(v)

\* Series.mean(): the mean of the values that are not NaN.
mean(s) ==
    LET v == SelectSeq(s, notna)
    IN  IF Len(v) = 0 THEN NaN ELSE Div(sum(v), Num(Len(v)))

\* The column of metric k of a result table.
Column(final, k) == [i \in 1..Len(final) |-> final[i].metrics[k]]

Batch_Analysis_avg_metrics(final) ==
    LET existing_metrics_for_avg == {k \in numeric_metrics_cols : k \in DOMAIN final[1].metrics}
    IN  [k \in existing_metrics_for_avg |-> mean(Column(final, k))]

Visualizations_avg_metrics(final) ==
    [k \in numeric_metrics_cols |-> mean(Column(final, k))]

\* A message the page shows: st.error or st.warning.
Message(kind, about, columns) == [kind |-> kind, about |-> about, columns |-> columns]

\* missing_cols of Batch_Analysis.py.
missing_cols(columns) == SelectSeq(required_columns, LAMBDA c : c \notin columns)

\* A file has been uploaded to one of the batch pages.
InitBatch ==
    /\ pc = "uploaded"
    /\ page \in Pages
    /\ copy = CopyOf(page)
    /\ uploaded_file \in Files
    /\ inputs = NoMeasurement
    /\ result = NoMetrics
    /\ recommendations = <<>>
    /\ prev = NoCall
    /\ session_state = NoSession
    /\ calls = <<>>
    /\ df = <<>>
    /\ result_df = <<>>
    /\ final_df = <<>>
    /\ report = <<>>

\* df = pd.read_csv(uploaded_file)
ReadCsv ==
    /\ pc = "uploaded"
    /\ df' = read_csv(uploaded_file)
    /\ pc' = "read"
    /\ UNCHANGED <<copy, inputs, result, recommendations, prev, session_state, calls, page, uploaded_file, result_df, final_df, report>>

\* The check for the required columns.  Batch_Analysis names the missing
\* columns and stops; CSV_Analysis lists all required columns and skips the
\* processing; Visualizations converts column after column and stops at the
\* first one that is missing, naming it.
CheckColumns ==
    /\ pc = "read"
    /\ LET columns == uploaded_file.columns
           missing == missing_cols(columns)
       IN  CASE page = "Batch_Analysis" ->
                    IF Len(missing) > 0
                    THEN /\ report' = Append(report, Message("error", "schema", missing))
                         /\ pc' = "stopped"
                         /\ UNCHANGED df
                    ELSE /\ pc' = "checked"
                         /\ UNCHANGED <<df, report>>
              [] page = "CSV_Analysis" ->
                    IF ~(\A i \in 1..Len(required_columns) : required_columns[i] \in columns)
                    THEN /\ report' = Append(report, Message("error", "schema", required_columns))
                         /\ pc' = "finished"
                         /\ UNCHANGED df
                    ELSE /\ pc' = "rows"
                         /\ UNCHANGED <<df, report>>
              [] page = "Visualizations" ->
                    IF Len(missing) > 0
                    THEN LET k == CHOOSE i \in 1..Len(numeric_cols) :
                                      /\ numeric_cols[i] \notin columns
                                      /\ \A j \in 1..(i - 1) : numeric_cols[j] \in columns
                         IN  /\ df' = to_numeric_columns(df, {numeric_cols[j] : j \in 1..(k - 1)})
                             /\ report' = Append(report, Message("error", "schema", <<numeric_cols[k]>>))
                             /\ pc' = "stopped"
                    ELSE /\ df' = to_numeric_columns(df, Range(numeric_cols))
                         /\ pc' = "checked"
                         /\ UNCHANGED report
    /\ UNCHANGED <<copy, inputs, result, recommendations, prev, session_state, calls, page, uploaded_file, result_df, final_df>>

\* The cleaning of Batch_Analysis (to_numeric, dropna) and of Visualizations
\* (dropna), and the stop when no row is left.
Clean ==
    /\ pc = "checked"
    /\ LET cleaned ==
               IF page = "Batch_Analysis"
               THEN dropna(to_numeric_columns(df, Range(required_columns)), Range(required_columns))
               ELSE dropna(df, Range(numeric_cols))
       IN  /\ df' = cleaned
           /\ IF Len(cleaned) = 0
              THEN /\ report' = Append(report, Message("warning", "empty", <<>>))
                   /\ pc' = "stopped"
              ELSE /\ pc' = "rows"
                   /\ UNCHANGED report
    /\ UNCHANGED <<copy, inputs, result, recommendations, prev, session_state, calls, page, uploaded_file, result_df, final_df>>

\* One turn of the loop over df's rows: the row's cells go to
\* calculate_metrics and the dict it returns is kept, labelled by its
\* position (Visualizations: by the row's label).  An exception ends the
\* run with an error message.
ProcessRow ==
    /\ pc = "rows"
    /\ Len(result_df) < Len(df)
    /\ LET row == df[Len(result_df) + 1]
           args == RowArgs(row.cells)
           r == calculate_metrics(copy, args)
           label == IF page = "Visualizations" THEN row.index ELSE Len(result_df)
       IN  /\ calls' = Append(calls, [copy |-> copy, args |-> args])
           /\ IF \E k \in DOMAIN r : Raised(r[k])
              THEN /\ report' = Append(report, Message("error", "exception", <<>>))
                   /\ pc' = "finished"
                   /\ UNCHANGED result_df
              ELSE /\ result_df' = Append(result_df, [index |-> label, metrics |-> r])
                   /\ UNCHANGED <<pc, report>>
    /\ UNCHANGED <<copy, inputs, result, recommendations, prev, session_state, page, uploaded_file, df, final_df>>

\* After the loop: the result table is put together and shown.
Concat ==
    /\ pc = "rows"
    /\ Len(result_df) = Len(df)
    /\ final_df' =
           CASE page = "Batch_Analysis" -> Batch_Analysis_final_df(df, result_df)
             [] page = "CSV_Analysis" -> CSV_Analysis_final_df(df, result_df)
             [] page = "Visualizations" -> Visualizations_df_with_metrics(df, result_df)
    /\ pc' = "table"
    /\ UNCHANGED <<copy, inputs, result, recommendations, prev, session_state, calls, page, uploaded_file, df, result_df, report>>

\* Batch_Analysis and Visualizations average the metric columns; the
\* averages then go to generate_recommendations (Recommend).
Average ==
    /\ pc = "table"
    /\ page \in {"Batch_Analysis", "Visualizations"}
    /\ result' =
           IF page = "Batch_Analysis"
           THEN Batch_Analysis_avg_metrics(final_df)
           ELSE Visualizations_avg_metrics(final_df)
    /\ pc' = "metrics"
    /\ UNCHANGED <<copy, inputs, recommendations, prev, session_state, calls, batch>>

NextBatch ==
    \/ ReadCsv
    \/ CheckColumns
    \/ Clean
    \/ ProcessRow
    \/ Concat
    \/ Average
    \/ Recommend

SpecBatch == InitBatch /\ [][NextBatch]_vars

\* Every entry point of the application: a single record through any copy,
\* or a file uploaded to a batch page.
InitApp == Init \/ InitBatch

NextApp == Next \/ NextBatch

SpecApp == InitApp /\ [][NextApp]_vars

(***************************************************************************)
(* What the properties read from a state.                                  *)
(***************************************************************************)
\* The value of indicator ind in the metrics dict held in result.
Val(ind) == result[Key(copy, ind)]

\* The severities of the messages about indicator ind.
Severities(ind) ==
    {recommendations[i].sev :
        i \in {j \in 1..Len(recommendations) : recommendations[j].about = ind}}

HasMetrics == pc \in {"metrics", "done"}

energy_input == Mul(inputs.coal_flow, inputs.gcv)

(***************************************************************************)
(* Properties of generate_recommendations, checked under SpecRec.          *)
(***************************************************************************)

\* C1: in every copy, boiler_efficiency is rated good iff value > 85,
\* warning iff 70 <= value <= 85, critical iff value < 70.
C1_BoilerEfficiencyBands ==
    pc = "done" =>
        LET be == Val("boiler_efficiency")
            sev == Severities("boiler_efficiency")
        IN  /\ sev = {"good"} <=> Gt(be, Num(85))
            /\ sev = {"warning"} <=> (Ge(be, Num(70)) /\ Le(be, Num(85)))
            /\ sev = {"critical"} <=> Lt(be, Num(70))

\* utils has rated a boiler efficiency of exactly 85 as warning.
C1_Witness ==
    /\ pc = "done"
    /\ copy = "utils"
    /\ Val("boiler_efficiency") = Num(85)
    /\ Severities("boiler_efficiency") = {"warning"}

\* C2 (as claimed): in every copy, heat_rate is rated warning on the whole
\* closed band [2500, 3000], good only below 2500, critical above 3000.
C2_HeatRateBands ==
    pc = "done" =>
        LET hr == Val("heat_rate")
            sev == Severities("heat_rate")
        IN  /\ (Ge(hr, Num(2500)) /\ Le(hr, Num(3000))) => sev = {"warning"}
            /\ sev = {"good"} => Lt(hr, Num(2500))
            /\ Gt(hr, Num(3000)) => sev = {"critical"}

\* C3 (as claimed): in every copy, heat_rate, specific_fuel_consumption
\* and flue_gas_loss are rated good only when the value is > 0, and a
\* heat_rate of 0 is rated critical.
C3_NoGoodAtOrBelowZero ==
    pc = "done" =>
        /\ \A ind \in {"heat_rate", "specific_fuel_consumption", "flue_gas_loss"} :
              "good" \in Severities(ind) => Gt(Val(ind), Num(0))
        /\ Val("heat_rate") = Num(0) => Severities("heat_rate") = {"critical"}

\* C4 (as claimed): in every copy, sfc in [0.6, 0.75] and flue_gas_loss in
\* [5, 10] are rated warning, sfc in (0, 0.6) and flue_gas_loss in (0, 5)
\* good, sfc > 0.75 and flue_gas_loss > 10 critical.
C4_SfcAndFlueLossBands ==
    pc = "done" =>
        LET sfc == Val("specific_fuel_consumption")
            fl == Val("flue_gas_loss")
            ssev == Severities("specific_fuel_consumption")
            fsev == Severities("flue_gas_loss")
        IN  /\ (Ge(sfc, Rat(6, 10)) /\ Le(sfc, Rat(75, 100))) => ssev = {"warning"}
            /\ (Gt(sfc, Num(0)) /\ Lt(sfc, Rat(6, 10))) => ssev = {"good"}
            /\ Gt(sfc, Rat(75, 100)) => ssev = {"critical"}
            /\ (Ge(fl, Num(5)) /\ Le(fl, Num(10))) => fsev = {"warning"}
            /\ (Gt(fl, Num(0)) /\ Lt(fl, Num(5))) => fsev = {"good"}
            /\ Gt(fl, Num(10)) => fsev = {"critical"}

\* C5 (as claimed): every copy returns exactly five messages, one per
\* indicator, in the order boiler efficiency, heat rate, specific fuel
\* consumption, flue gas loss, CO2 emissions, whatever the values are.
C5_AlwaysFiveMessages ==
    pc = "done" =>
        /\ Len(recommendations) = 5
        /\ \A i \in 1..5 : recommendations[i].about = Indicators[i]

\* C5 (amended): every copy returns one message for each of boiler
\* efficiency, heat rate, specific fuel consumption and flue gas loss, in
\* that order, followed by at most one message about CO2 emissions: none
\* when co2_emissions <= 0, one when co2_emissions > 8000, and in the
\* page-local copies one whenever co2_emissions > 0.  So four or five
\* messages, depending on co2_emissions.
C5_FourThenAtMostOneCo2 ==
    pc = "done" =>
        /\ Len(recommendations) \in {4, 5}
        /\ \A i \in 1..Len(recommendations) : recommendations[i].about = Indicators[i]
        /\ Le(Val("co2_emissions"), Num(0)) => Len(recommendations) = 4
        /\ (copy # "utils" /\ Gt(Val("co2_emissions"), Num(0)))
              => Len(recommendations) = 5
        /\ Gt(Val("co2_emissions"), Num(8000)) => Len(recommendations) = 5

\* A page copy has returned four messages for a record with co2_emissions 0.
C5_Witness ==
    /\ pc = "done"
    /\ copy = "Batch_Analysis"
    /\ Val("co2_emissions") = Num(0)
    /\ Len(recommendations) = 4
    /\ recommendations[4].about = "flue_gas_loss"

\* C6 (as claimed): in every copy, co2_emissions > 8000 gives a warning
\* message and 0 < co2_emissions <= 8000 gives a good (informational)
\* message.
C6_Co2Bands ==
    pc = "done" =>
        LET co2 == Val("co2_emissions")
            sev == Severities("co2_emissions")
        IN  /\ Gt(co2, Num(8000)) => sev = {"warning"}
            /\ (Gt(co2, Num(0)) /\ Le(co2, Num(8000))) => sev = {"good"}

(***************************************************************************)
(* Properties of calculate_metrics, checked under Spec.                    *)
(***************************************************************************)

\* C7: in every copy, a measurement record with power_output = 0 gives
\* heat_rate = 0 and specific_fuel_consumption = 0, whatever the other
\* inputs are.
C7_ZeroPowerOutput ==
    (pc # "start" /\ inputs.power_output = Num(0)) =>
        /\ HasMetrics
        /\ Val("heat_rate") = Num(0)
        /\ Val("specific_fuel_consumption") = Num(0)

\* A copy has returned a zero heat rate for a record with power_output = 0
\* and a nonzero energy input.
C7_Witness ==
    /\ pc = "metrics"
    /\ copy = "Visualizations"
    /\ inputs.power_output = Num(0)
    /\ Ne(energy_input, Num(0))
    /\ Val("heat_rate") = Num(0)
    /\ Val("specific_fuel_consumption") = Num(0)

\* C8 (as claimed): in every copy, a measurement record with
\* coal_flow * gcv = 0 gives boiler_efficiency = 0 and flue_gas_loss = 0,
\* whatever flue_temp and ambient_temp are.
C8_ZeroEnergyInput ==
    (pc # "start" /\ energy_input = Num(0)) =>
        /\ HasMetrics
        /\ Val("boiler_efficiency") = Num(0)
        /\ Val("flue_gas_loss") = Num(0)

\* C9: calculate_metrics is total: on every measurement record, with
\* energy_input = 0 and power_output = 0 included, every copy returns a
\* dict with all five metrics defined and raises nothing.
C9_Total ==
    pc # "start" =>
        /\ pc # "raised"
        /\ DOMAIN result = {Key(copy, Indicators[i]) : i \in 1..5}
        /\ \A k \in DOMAIN result : IsNumber(result[k])

\* utils.calculate_metrics has returned on a record whose two denominators
\* are both 0.
C9_Witness ==
    /\ pc = "metrics"
    /\ copy = "utils"
    /\ energy_input = Num(0)
    /\ inputs.power_output = Num(0)
    /\ \A k \in DOMAIN result : IsNumber(result[k])

\* The measurement record of the end-to-end example.
Example ==
    [coal_flow |-> Num(100), gcv |-> Num(5000), steam_flow |-> Num(400),
     steam_enthalpy |-> Num(750), feedwater_enthalpy |-> Num(100),
     power_output |-> Num(200), flue_temp |-> Num(150),
     ambient_temp |-> Num(25)]

\* C10 (as claimed): with energy_input and power_output nonzero, every copy
\* returns boiler_efficiency = steam_flow * (steam_enthalpy -
\* feedwater_enthalpy) / (coal_flow * gcv) * 100, heat_rate = coal_flow *
\* gcv / power_output and specific_fuel_consumption = coal_flow /
\* power_output; on the example record these are 52, 2500 and 0.5, and
\* generate_recommendations rates boiler efficiency critical and heat rate
\* warning.
C10_FormulasAndExample ==
    (pc = "done" /\ Ne(energy_input, Num(0)) /\ Ne(inputs.power_output, Num(0))) =>
        /\ Val("boiler_efficiency") =
              Mul(Div(Mul(inputs.steam_flow,
                          Sub(inputs.steam_enthalpy, inputs.feedwater_enthalpy)),
                      energy_input),
                  Num(100))
        /\ Val("heat_rate") = Div(energy_input, inputs.power_output)
        /\ Val("specific_fuel_consumption") =
              Div(inputs.coal_flow, inputs.power_output)
        /\ inputs = Example =>
              /\ Val("boiler_efficiency") = Num(52)
              /\ Val("heat_rate") = Num(2500)
              /\ Val("specific_fuel_consumption") = Rat(1, 2)
              /\ Severities("boiler_efficiency") = {"critical"}
              /\ Severities("heat_rate") = {"warning"}

(***************************************************************************)
(* Properties of two calls that differ in the steam enthalpy, checked      *)
(* under SpecMono.                                                         *)
(***************************************************************************)
Recalculated == prev # NoCall

\* boiler_efficiency as the first and as the second call returned it.
boiler_efficiency_before == prev.result[Key(copy, "boiler_efficiency")]
boiler_efficiency_after == result[Key(copy, "boiler_efficiency")]

\* C11: with energy_input > 0, a larger steam_enthalpy gives a strictly
\* larger boiler_efficiency, for every steam_flow >= 0 and for the rounded
\* value utils.calculate_metrics returns.
C11_StrictlyIncreasing ==
    (Recalculated /\ Gt(energy_input, Num(0)))
        => Gt(boiler_efficiency_after, boiler_efficiency_before)

\* C11, amended: with energy_input > 0 and steam_flow > 0, a larger
\* steam_enthalpy gives a strictly larger boiler_efficiency in the
\* page-local copies and never a smaller one in utils, whose rounded value
\* may stay the same; with steam_flow = 0 boiler_efficiency stays 0.
C11_IncreasingUpToRounding ==
    (Recalculated /\ Gt(energy_input, Num(0)))
        => /\ (Gt(inputs.steam_flow, Num(0)) /\ copy # "utils")
                => Gt(boiler_efficiency_after, boiler_efficiency_before)
           /\ (Gt(inputs.steam_flow, Num(0)) /\ copy = "utils")
                => Ge(boiler_efficiency_after, boiler_efficiency_before)
           /\ inputs.steam_flow = Num(0)
                => (boiler_efficiency_before = Num(0) /\ boiler_efficiency_after = Num(0))

\* The second call of utils returned the same rounded boiler_efficiency for
\* a larger steam enthalpy.
C11_Witness ==
    /\ Recalculated
    /\ copy = "utils"
    /\ Gt(energy_input, Num(0))
    /\ Gt(inputs.steam_flow, Num(0))
    /\ Gt(inputs.steam_enthalpy, prev.inputs.steam_enthalpy)
    /\ boiler_efficiency_after = boiler_efficiency_before

(***************************************************************************)
(* Properties of the batch pages, checked under SpecBatch.                 *)
(***************************************************************************)
Uploaded == page # "none"

\* The required columns the uploaded file lacks.
Missing == Range(required_columns) \ uploaded_file.columns

Complete == Missing = {}

\* A row of the file with a number in every cell.
ValidRow(r) == \A c \in DOMAIN r : IsNumber(r[c])

ValidRows == SelectSeq(uploaded_file.rows, ValidRow)

\* The result table has been shown.
Processed == pc \in {"table", "metrics", "done"}

\* The script run is over.
Ended ==
    \/ pc \in {"stopped", "finished", "done"}
    \/ (pc = "table" /\ page = "CSV_Analysis")

Reported(about) == \E i \in 1..Len(report) : report[i].about = about

\* Every row the page processes is the same record.
Identical == Len(df) >= 1 /\ \A i \in 1..Len(df) : df[i].cells = df[1].cells

SingleRecord == calculate_metrics(copy, RowArgs(df[1].cells))

C13_SchemaErrorNamesMissing ==
    (Uploaded /\ pc \notin {"uploaded", "read"} /\ ~Complete)
        => /\ \E i \in 1..Len(report) :
                  report[i].about = "schema" /\ Range(report[i].columns) = Missing
           /\ calls = <<>>
           /\ final_df = <<>>
           /\ recommendations = <<>>

\* C14 (as claimed): on every batch page the rows with a missing or
\* non-numeric value are excluded before calculate_metrics, every other row
\* is processed, and the number of excluded rows is reported.
C14_InvalidRowsExcludedAndCounted ==
    (Uploaded /\ Complete /\ Ended)
        => /\ [i \in 1..Len(calls) |-> calls[i].args]
                  = [i \in 1..Len(ValidRows) |-> RowArgs(ValidRows[i])]
           /\ Len(ValidRows) < Len(uploaded_file.rows) => Reported("excluded rows")

\* The argument record with 0 in the place of every value that is not a
\* number.
ZeroFilled(args) == [f \in DOMAIN args |-> IF IsNumber(args[f]) THEN args[f] ELSE Num(0)]

\* C15, checked under SpecApp: no call of calculate_metrics computes its
\* record with a missing or non-numeric input replaced by 0.  The copies
\* with the NaN-to-0 coercion never receive a NaN, and a call that receives
\* a value that is not a number does not return what it returns for 0 in
\* its place.
C15_NoZeroFilling ==
    \A i \in 1..Len(calls) :
        /\ calls[i].copy \in {"Manual_Audit", "Batch_Analysis"}
              => \A f \in DOMAIN calls[i].args : notna(calls[i].args[f])
        /\ (\E f \in DOMAIN calls[i].args : ~IsNumber(calls[i].args[f]))
              => calculate_metrics(calls[i].copy, calls[i].args)
                    # calculate_metrics(calls[i].copy, ZeroFilled(calls[i].args))

\* Batch_Analysis has shown a result table for a file with a row it had to
\* drop.
C15_Witness ==
    /\ page = "Batch_Analysis"
    /\ Processed
    /\ Len(calls) >= 1
    /\ Len(ValidRows) < Len(uploaded_file.rows)

\* C16 (as claimed): on every batch page, a table with no valid row ends
\* with the empty-batch condition reported: calculate_metrics and
\* generate_recommendations are never called, no aggregate is computed and
\* no exception is raised.
C16_EmptyBatchReported ==
    (Uploaded /\ Complete /\ Len(ValidRows) = 0)
        => /\ calls = <<>>
           /\ result = NoMetrics
           /\ recommendations = <<>>
           /\ ~Reported("exception")
           /\ Ended => Reported("empty")

\* The rows of the file that the page keeps: CSV_Analysis drops none.
Survivors == IF page = "CSV_Analysis" THEN uploaded_file.rows ELSE ValidRows

\* C17: in every result table, row i holds the measurements of the i-th
\* surviving row of the file and the metrics computed from those
\* measurements.
C17_RowsAligned ==
    (Uploaded /\ Processed)
        => /\ Len(final_df) = Len(Survivors)
           /\ \A i \in 1..Len(final_df) :
                  /\ final_df[i].cells = Survivors[i]
                  /\ final_df[i].metrics = calculate_metrics(copy, RowArgs(Survivors[i]))

\* A table of two different rows out of a file of three whose second row
\* was excluded.
C17_Witness ==
    /\ Uploaded
    /\ Processed
    /\ Len(uploaded_file.rows) = 3
    /\ ~ValidRow(uploaded_file.rows[2])
    /\ Len(final_df) = 2
    /\ final_df[1].cells # final_df[2].cells

\* C20 (as claimed): when a row of the batch has power_output = 0, so that
\* its heat_rate and specific_fuel_consumption are the guard's 0, the
\* recommendations on the averages rate neither heat rate nor specific fuel
\* consumption good.
C20_DegenerateRowNeverGood ==
    (Uploaded /\ pc = "done" /\ \E i \in 1..Len(df) : df[i].cells["Power Output"] = Num(0))
        => /\ "good" \notin Severities("heat_rate")
           /\ "good" \notin Severities("specific_fuel_consumption")

(***************************************************************************)
(* Properties that compare the copies of calculate_metrics.                *)
(***************************************************************************)
\* The emission factor of copy c, kg of CO2 per kg of coal.
EMISSION_FACTOR(c) == IF c = "utils" THEN Rat(232, 100) ELSE Rat(229, 100)

\* C18 (as claimed), checked under Spec: every copy returns the same five
\* values for the measurement record, flue_gas_loss is that of model (b)
\* and co2_emissions is coal_flow times one emission factor.
C18_CopiesAgree ==
    HasMetrics =>
        /\ \A c \in Copies : \A i \in 1..Len(Indicators) :
              calculate_metrics(c, inputs)[Key(c, Indicators[i])] = Val(Indicators[i])
        /\ Val("flue_gas_loss") =
              IF Ne(energy_input, Num(0))
              THEN Mul(Div(Mul(Mul(Sub(inputs.flue_temp, inputs.ambient_temp), Rat(24, 100)),
                               Mul(Rat(15, 10), inputs.coal_flow)),
                           energy_input),
                       Num(100))
              ELSE Num(0)
        /\ \A c \in Copies :
              calculate_metrics(c, inputs)[Key(c, "co2_emissions")]
                  = Mul(inputs.coal_flow, EMISSION_FACTOR(copy))

\* C19 (as claimed), checked under SpecMono: co2_emissions is exactly
\* coal_flow times the copy's emission factor, so it is 0 only for
\* coal_flow = 0.
C19_Co2ExactlyLinear ==
    HasMetrics =>
        /\ Val("co2_emissions") = Mul(inputs.coal_flow, EMISSION_FACTOR(copy))
        /\ Val("co2_emissions") = Num(0) <=> inputs.coal_flow = Num(0)

(***************************************************************************)
(* The Manual Audit page.  Streamlit runs the page's script from top to    *)
(* bottom whenever an input is edited or the button is clicked; the number *)
(* inputs hold the form's values, st.session_state survives the runs.       *)
(* inputs is the form as shown, result and recommendations are the table   *)
(* and the messages on the screen, prev records the form at the most       *)
(* recent click.                                                           *)
(***************************************************************************)
\* The value the page stores: None, or the dict calculate_metrics returned.
calculated_result == session_state["calculated_result"]

\* One run of the script up to the display: the key is created holding None
\* when the session does not have it, and a click on Run Audit stores
\* calculate_metrics of the form's values.
Manual_Audit_script_run_resetting(session, form, clicked) ==
    IF clicked
    THEN ("calculated_result" :> calculate_metrics("Manual_Audit", form))
    ELSE ("calculated_result" :> None)

Manual_Audit_script_run(session, form, clicked) ==
    LET created == IF "calculated_result" \in DOMAIN session
                   THEN session
                   ELSE ("calculated_result" :> None) @@ session
    IN  IF clicked
        THEN [created EXCEPT !["calculated_result"] = calculate_metrics("Manual_Audit", form)]
        ELSE created

\* if st.session_state.calculated_result: None and the empty dict are falsy.
Manual_Audit_shown(stored) == stored # None /\ DOMAIN stored # {}

\* The results table: the stored values rounded to two decimals.
Manual_Audit_results_df(stored) ==
    IF Manual_Audit_shown(stored)
    THEN [k \in DOMAIN stored |-> round(stored[k], 2)]
    ELSE NoMetrics

\* The messages under the table.
Manual_Audit_recommendations_list(stored) ==
    IF Manual_Audit_shown(stored)
    THEN generate_recommendations("Manual_Audit", stored)
    ELSE <<>>

\* The values an edit can put in a number input: multiples of the default,
\* 0 included (min_value=0.0).
FormEdits ==
    [coal_flow |-> {Num(100 * k) : k \in 0..MaxStep},
     power_output |-> {Num(200 * k) : k \in 0..MaxStep},
     steam_enthalpy |-> {Num(750 * k) : k \in 0..MaxStep}]

\* The page after its first run: the form holds the defaults, nothing is
\* stored and nothing is displayed.
InitSession ==
    /\ pc = "form"
    /\ copy = "Manual_Audit"
    /\ inputs = Example
    /\ session_state = Manual_Audit_script_run(NoSession, Example, FALSE)
    /\ result = Manual_Audit_results_df(None)
    /\ recommendations = Manual_Audit_recommendations_list(None)
    /\ prev = NoCall
    /\ calls = <<>>
    /\ NoPage

\* The user changes one number input to value; the script reruns with the
\* button not clicked.
EditInput(field, value) ==
    /\ pc = "form"
    /\ inputs[field] # value
    /\ inputs' = [inputs EXCEPT ![field] = value]
    /\ session_state' = Manual_Audit_script_run(session_state, inputs', FALSE)
    /\ result' = Manual_Audit_results_df(session_state'["calculated_result"])
    /\ recommendations' = Manual_Audit_recommendations_list(session_state'["calculated_result"])
    /\ UNCHANGED <<pc, copy, prev, calls, batch>>

\* The user clicks Run Audit; the script reruns with the button clicked.
\* Of the log of calls only the latest is kept.
RunAudit ==
    /\ pc = "form"
    /\ session_state' = Manual_Audit_script_run(session_state, inputs, TRUE)
    /\ result' = Manual_Audit_results_df(session_state'["calculated_result"])
    /\ recommendations' = Manual_Audit_recommendations_list(session_state'["calculated_result"])
    /\ prev' = [inputs |-> inputs, result |-> session_state'["calculated_result"]]
    /\ calls' = <<[copy |-> "Manual_Audit", args |-> inputs]>>
    /\ UNCHANGED <<pc, copy, inputs, batch>>

NextSession ==
    \/ \E field \in DOMAIN FormEdits : \E value \in FormEdits[field] : EditInput(field, value)
    \/ RunAudit

SpecSession == InitSession /\ [][NextSession]_vars

(***************************************************************************)
(* Properties of the Manual Audit session, checked under SpecSession.      *)
(***************************************************************************)
Clicked == prev # NoCall

\* C21: calculated_result is None until the first click on Run Audit, and
\* afterwards it is calculate_metrics of the form as it was at the most
\* recent click, whatever has been edited since; the table and the messages
\* on the screen are those of that stored result.
C21_ResultOfLastClick ==
    /\ ~Clicked =>
        /\ calculated_result = None
        /\ result = NoMetrics
        /\ recommendations = <<>>
    /\ Clicked =>
        LET last == calculate_metrics("Manual_Audit", prev.inputs)
        IN  /\ calculated_result = last
            /\ result = [k \in DOMAIN last |-> round(last[k], 2)]
            /\ recommendations = generate_recommendations("Manual_Audit", last)

\* After a click and an edit, the stored result and the messages on the
\* screen are not those of the form as shown.
C21_Witness ==
    /\ Clicked
    /\ inputs # prev.inputs
    /\ calculated_result # calculate_metrics("Manual_Audit", inputs)
    /\ recommendations # generate_recommendations("Manual_Audit", calculate_metrics("Manual_Audit", inputs))

(***************************************************************************)
(* The Single Audit Calculator page.  Its form holds the eight number      *)
(* inputs; a submit runs the body of `if submitted:` once, outside any     *)
(* try block.                                                              *)
(***************************************************************************)
\* The keys the page reads from the dict calculate_metrics returned, in the
\* order it reads them.
Audit_Calculator_keys ==
    <<"boiler_efficiency", "heat_rate", "sfc", "flue_gas_loss", "co2_emissions">>

\* The keys whose lookup results[key] raises KeyError.
Audit_Calculator_missing(results) ==
    SelectSeq(Audit_Calculator_keys, LAMBDA k : k \notin DOMAIN results)

\* The form as filled in when Calculate is pressed; every input is >= 0.
InitCalculator ==
    /\ pc = "form"
    /\ copy = "utils"
    /\ inputs \in Measurements
    /\ result = NoMetrics
    /\ recommendations = <<>>
    /\ prev = NoCall
    /\ session_state = NoSession
    /\ calls = <<>>
    /\ NoPage

\* The user presses Calculate: utils.calculate_metrics on the form's values,
\* the five metric lines, then generate_recommendations.  An exception ends
\* the run where it is raised; result holds the dict bound to results.
Submit ==
    /\ pc = "form"
    /\ calls' = Append(calls, [copy |-> "utils", args |-> inputs])
    /\ LET results == calculate_metrics("utils", inputs)
       IN  IF \E k \in DOMAIN results : Raised(results[k])
           THEN pc' = "raised" /\ result' = NoMetrics /\ recommendations' = <<>>
           ELSE IF Audit_Calculator_missing(results) # <<>>
           THEN pc' = "raised" /\ result' = results /\ recommendations' = <<>>
           ELSE /\ pc' = "done"
                /\ result' = results
                /\ recommendations' = generate_recommendations("utils", results)
    /\ UNCHANGED <<copy, inputs, prev, session_state, batch>>

NextCalculator == Submit

SpecCalculator == InitCalculator /\ [][NextCalculator]_vars

(***************************************************************************)
(* Properties of the Single Audit Calculator, checked under                *)
(* SpecCalculator.                                                         *)
(***************************************************************************)
Submitted == calls # <<>>

\* C22 (as claimed): after a submit every key the page reads is a key of the
\* dict utils.calculate_metrics returned, the run reaches the
\* recommendations step and the recommendations of that dict are displayed.
C22_SubmitReachesRecommendations ==
    Submitted =>
        /\ \A i \in DOMAIN Audit_Calculator_keys : Audit_Calculator_keys[i] \in DOMAIN result
        /\ pc = "done"
        /\ recommendations = generate_recommendations("utils", result)

====
